---- MODULE Spec2Model ----
(***************************************************************************)
(* Model of healthcapacity.py: the start-up pipeline that joins the case   *)
(* table and the hospital table and derives the summary values, and the    *)
(* update_graph callback that renders the three charts for the selected    *)
(* state.                                                                  *)
(*                                                                         *)
(* Floating point values are modelled as exact values: a reduced fraction  *)
(* n/d, or the IEEE specials inf and nan.  Rounding is abstracted away.    *)
(* A data frame is a sequence of rows (records); a row's position is its   *)
(* index label.                                                            *)
(***************************************************************************)
EXTENDS Integers, Sequences, FiniteSets, TLC

VARIABLES
    pc,                     \* "import" | "loaded" | "serving" | "crashed"
    cases_state_df,         \* line 19 / 24
    hospital_df,            \* line 18 / 23
    df,                     \* line 27 .. 34
    max_capacity_state,     \* line 37
    max_capacity_value,     \* line 38
    beds_utilized_by_covid, \* line 41 .. 42
    heatmap_data,           \* line 45 .. 47
    cards,                  \* the three summary cards of the layout
    selected_state,         \* value of 'state-dropdown'
    line_chart,             \* figure shown in 'line-chart'
    scatter_plot,           \* figure shown in 'scatter-plot'
    heatmap,                \* figure shown in 'heatmap'
    callback_error,         \* the last update_graph invocation raised
    completed               \* history: selections whose render returned

vars == <<pc, cases_state_df, hospital_df, df, max_capacity_state,
          max_capacity_value, beds_utilized_by_covid, heatmap_data, cards,
          selected_state, line_chart, scatter_plot, heatmap, callback_error,
          completed>>

shared == <<cases_state_df, hospital_df, df, max_capacity_state,
            max_capacity_value, beds_utilized_by_covid, heatmap_data, cards>>

-----------------------------------------------------------------------------
(* Bounds of the enumerated input files *)

\* rows of a short table (fewer rows than the scatter sample)
Few == 3

\* the sample size of update_graph
SampleSize == 100

\* a module-level name before its assignment
None == "None"

\* a dcc.Graph whose figure no callback has set
NoFigure == [figure |-> "none"]

States == <<"Selangor", "Penang">>

\* days of a table that spans several months and two years
Span == 40

ZeroBedCases == {"none", "nan_first_month", "inf_row", "nan_row", "all_nan"}

RowOrders == {"by_date", "by_state"}

-----------------------------------------------------------------------------
(* Floating point values *)

RECURSIVE GCD(_, _)
GCD(a, b) == IF b = 0 THEN a ELSE GCD(b, a % b)

Num(n, d) == LET g == GCD(n, d) IN [kind |-> "num", n |-> n \div g, d |-> d \div g]

Inf == [kind |-> "inf"]
NaN == [kind |-> "nan"]
Zero == Num(0, 1)

isna(v) == v.kind = "nan"
IsFinite(v) == v.kind = "num"

\* int / int of two non-negative columns: x/0 is inf, 0/0 is nan, no exception
TrueDiv(a, b) == IF b # 0 THEN Num(a, b) ELSE IF a = 0 THEN NaN ELSE Inf

MulInt(v, k) == IF v.kind = "num" THEN Num(v.n * k, v.d) ELSE v

DivInt(v, k) == IF v.kind = "num" THEN Num(v.n, v.d * k) ELSE v

Add(v, w) ==
    IF isna(v) \/ isna(w) THEN NaN
    ELSE IF v.kind = "inf" \/ w.kind = "inf" THEN Inf
    ELSE Num(v.n * w.d + w.n * v.d, v.d * w.d)

\* v > w for values that are not nan
Greater(v, w) ==
    IF v.kind = "inf" THEN w.kind # "inf"
    ELSE IF w.kind = "inf" THEN FALSE
    ELSE v.n * w.d > w.n * v.d

\* Series.max(): the greatest value that is not nan, nan when there is none
Max2(v, w) == IF isna(v) THEN w ELSE IF isna(w) THEN v ELSE IF Greater(w, v) THEN w ELSE v

-----------------------------------------------------------------------------
(* The two data files read by load_data *)

StateSet == {States[k] : k \in DOMAIN States}

\* the k-th calendar day of the files, as the digits of its 'YYYY-MM-DD' text
DateOfDay(i) ==
    IF i <= 2 THEN 20201128 + i
    ELSE IF i <= 33 THEN 20201200 + (i - 2)
    ELSE IF i <= 64 THEN 20210100 + (i - 33)
    ELSE IF i <= 92 THEN 20210200 + (i - 64)
    ELSE 20210300 + (i - 92)

MaxRows == SampleSize + 1

\* the (day, state) keys of a file that holds the first n[s] days of state s
KeysOf(n, order) ==
    LET all == [k \in 1..(Len(States) * MaxRows) |->
                  IF order = "by_date"
                  THEN <<((k - 1) \div Len(States)) + 1, States[((k - 1) % Len(States)) + 1]>>
                  ELSE <<((k - 1) % MaxRows) + 1, States[((k - 1) \div MaxRows) + 1]>>]
        Held(key) == key[1] <= n[key[2]]
    IN SelectSeq(all, Held)

CaseRow(i, s) ==
    [date |-> DateOfDay(i), state |-> s, cases_new |-> (i * 7 + (IF s = States[1] THEN 0 ELSE 3)) % 11]

HospitalRow(i, s, zero) ==
    LET nobeds == \/ zero = "all_nan"
                  \/ zero = "nan_first_month" /\ i <= 2
                  \/ zero = "inf_row" /\ i = 2
                  \/ zero = "nan_row" /\ i = 1 /\ s = States[1]
    IN [date |-> DateOfDay(i), state |-> s,
        admitted_total |-> IF zero = "inf_row" /\ i = 2 THEN 5
                           ELSE IF nobeds THEN 0
                           ELSE IF s = States[1] THEN (i % 3) + 1
                           ELSE ((i + 1) % 3) + 1,
        beds |-> IF nobeds THEN 0 ELSE IF s # States[1] /\ i % 3 = 0 THEN 3 ELSE 4,
        beds_covid |-> (i % 2) + 1]

CasesFile(n, order) ==
    LET keys == KeysOf(n, order)
    IN [k \in DOMAIN keys |-> CaseRow(keys[k][1], keys[k][2])]

HospitalFile(n, order, zero) ==
    LET keys == KeysOf(n, order)
    IN [k \in DOMAIN keys |-> HospitalRow(keys[k][1], keys[k][2], zero)]

\* files too short for any state to fill the scatter sample: every combination of
\* row counts, row order and zero-bed rows
SmallInputs ==
    {[cases |-> c, hosp |-> h, order |-> o, zero |-> z] :
        c \in {0, Few, Span}, h \in [StateSet -> {0, Few, Span}],
        o \in RowOrders, z \in ZeroBedCases}

\* files long enough for the scatter sample: the first state holds exactly the
\* sample size, with the second holding too few rows or exactly the sample size, or
\* it holds one row more, with the second holding exactly the sample size
LargeInputs ==
    {[cases |-> SampleSize + 1, hosp |-> h, order |-> "by_date", zero |-> z] :
        h \in {g \in [StateSet -> {Few, SampleSize, SampleSize + 1}] :
                 /\ g[States[1]] > Few
                 /\ g[States[2]] <= SampleSize
                 /\ g[States[2]] = Few => g[States[1]] = SampleSize},
        z \in {"none", "inf_row"}}

Inputs == SmallInputs \cup LargeInputs

-----------------------------------------------------------------------------
(* PROCESS DATA *)

to_datetime(frame) ==
    [i \in DOMAIN frame |->
        [frame[i] EXCEPT !.date = [year |-> @ \div 10000,
                                   month |-> (@ \div 100) % 100,
                                   day |-> @ % 100]]]

Column(frame, name) == [i \in DOMAIN frame |-> frame[i][name]]

\* one row of the merge result: the columns of both sides, the keys once
MergedRow(l, r) ==
    [date |-> l.date, state |-> l.state, cases_new |-> l.cases_new,
     admitted_total |-> r.admitted_total, beds |-> r.beds, beds_covid |-> r.beds_covid]

\* faulty variant: on=['date']
KeysMatchDateOnly(l, r) == l.date = r.date

\* on=['date','state']
KeysMatch(l, r) == l.date = r.date /\ l.state = r.state

\* pd.merge(left, right, on=['date','state']): inner join, every pair of rows with
\* equal keys, in the order of the left rows
RECURSIVE MergeRange(_, _, _, _)
MergeRange(left, right, lo, hi) ==
    IF lo > hi THEN <<>>
    ELSE IF lo = hi
    THEN LET l == left[lo]
             Match(r) == KeysMatch(l, r)
             hits == SelectSeq(right, Match)
         IN [j \in DOMAIN hits |-> MergedRow(l, hits[j])]
    ELSE LET mid == (lo + hi) \div 2
         IN MergeRange(left, right, lo, mid) \o MergeRange(left, right, mid + 1, hi)

merge(left, right) == MergeRange(left, right, 1, Len(left))

healthcare_capacity(row) == MulInt(TrueDiv(row.admitted_total, row.beds), 100)

\* lines 30 .. 34: the added columns
Derive(frame) ==
    [i \in DOMAIN frame |->
        [date |-> frame[i].date, state |-> frame[i].state,
         cases_new |-> frame[i].cases_new,
         admitted_total |-> frame[i].admitted_total, beds |-> frame[i].beds,
         beds_covid |-> frame[i].beds_covid,
         year |-> frame[i].date.year, month |-> frame[i].date.month,
         healthcare_capacity |-> healthcare_capacity(frame[i])]]

\* Series.idxmax(): label of the first occurrence of the greatest value that is not
\* nan; 0 stands for the exception raised when there is no such value
\* faulty variant: the later of two equal values wins
LastMax(col, a, b) ==
    IF a = 0 THEN b ELSE IF b = 0 THEN a ELSE IF Greater(col[a], col[b]) THEN a ELSE b

\* the earlier of two candidate labels wins unless the later value is greater
FirstMax(col, a, b) ==
    IF a = 0 THEN b ELSE IF b = 0 THEN a ELSE IF Greater(col[b], col[a]) THEN b ELSE a

RECURSIVE IdxMaxRange(_, _, _)
IdxMaxRange(col, lo, hi) ==
    IF lo > hi THEN 0
    ELSE IF lo = hi THEN (IF isna(col[lo]) THEN 0 ELSE lo)
    ELSE LET mid == (lo + hi) \div 2
         IN FirstMax(col, IdxMaxRange(col, lo, mid), IdxMaxRange(col, mid + 1, hi))

idxmax(col) == IdxMaxRange(col, 1, Len(col))

RECURSIVE MaxRange(_, _, _)
MaxRange(col, lo, hi) ==
    IF lo > hi THEN NaN
    ELSE IF lo = hi THEN col[lo]
    ELSE LET mid == (lo + hi) \div 2
         IN Max2(MaxRange(col, lo, mid), MaxRange(col, mid + 1, hi))

max(col) == MaxRange(col, 1, Len(col))

RECURSIVE SumRange(_, _, _)
SumRange(col, lo, hi) ==
    IF lo > hi THEN 0
    ELSE IF lo = hi THEN col[lo]
    ELSE LET mid == (lo + hi) \div 2
         IN SumRange(col, lo, mid) + SumRange(col, mid + 1, hi)

sum(col) == SumRange(col, 1, Len(col))

\* (year, month) keys in ascending order, as groupby sorts its group keys
KeyBefore(a, b) == a[1] < b[1] \/ (a[1] = b[1] /\ a[2] < b[2])

RECURSIVE SortKeys(_)
SortKeys(keys) ==
    IF keys = {} THEN <<>>
    ELSE LET least == CHOOSE a \in keys : \A b \in keys \ {a} : KeyBefore(a, b)
         IN <<least>> \o SortKeys(keys \ {least})

RECURSIVE AddRange(_, _, _)
AddRange(col, lo, hi) ==
    IF lo > hi THEN Zero
    ELSE IF lo = hi THEN col[lo]
    ELSE LET mid == (lo + hi) \div 2
         IN Add(AddRange(col, lo, mid), AddRange(col, mid + 1, hi))

\* Series.mean(): the mean of the values that are not nan, nan when there is none
mean(col) ==
    LET NotNa(v) == ~isna(v)
        vals == SelectSeq(col, NotNa)
    IN IF Len(vals) = 0 THEN NaN ELSE DivInt(AddRange(vals, 1, Len(vals)), Len(vals))

\* df.groupby(['year','month'])['healthcare_capacity'].mean().reset_index()
groupby_mean(frame) ==
    LET keys == SortKeys({<<frame[i].year, frame[i].month>> : i \in DOMAIN frame})
        Group(k) == LET In(r) == r.year = keys[k][1] /\ r.month = keys[k][2]
                    IN SelectSeq(frame, In)
    IN [k \in DOMAIN keys |->
          [year |-> keys[k][1], month |-> keys[k][2],
           healthcare_capacity |-> mean(Column(Group(k), "healthcare_capacity"))]]

\* faulty variant: the nan means are left in the table
fillna_skipped(frame, value) == frame

fillna(frame, value) ==
    [k \in DOMAIN frame |->
        [frame[k] EXCEPT !.healthcare_capacity = IF isna(@) THEN value ELSE @]]

\* heatmap_data.pivot(index='year', columns='month', values='healthcare_capacity'):
\* a year x month grid, nan where the table has no row
pivot(table) ==
    LET years == {table[k].year : k \in DOMAIN table}
        months == {table[k].month : k \in DOMAIN table}
    IN [index |-> years, columns |-> months,
        z |-> [c \in years \X months |->
                 IF \E k \in DOMAIN table : table[k].year = c[1] /\ table[k].month = c[2]
                 THEN LET k == CHOOSE k \in DOMAIN table :
                                   table[k].year = c[1] /\ table[k].month = c[2]
                      IN table[k].healthcare_capacity
                 ELSE NaN]]

\* df['state'].unique(): the distinct states, the options of the dropdown
unique_states(frame) == {frame[i].state : i \in DOMAIN frame}

-----------------------------------------------------------------------------
(* APP CALLBACK *)

\* df[df['state'] == selected_state], as the index labels of the rows kept
filter_state(frame, state) ==
    LET Keep(i) == frame[i].state = state
    IN SelectSeq([i \in 1..Len(frame) |-> i], Keep)

RECURSIVE KSubsets(_, _)
KSubsets(S, k) ==
    IF k = 0 THEN {{}}
    ELSE UNION {{T \cup {x} : x \in S \ T} : T \in KSubsets(S, k - 1)}

\* DataFrame.sample(n, random_state=1): n of the rows, without replacement; the rows
\* the generator picks are not modelled, any n rows may be the result.  The empty
\* set of results stands for the ValueError raised when n exceeds the row count.
sample(labels, n) ==
    LET all == {labels[i] : i \in DOMAIN labels}
    IN IF n > Len(labels) THEN {}
       ELSE {all \ out : out \in KSubsets(all, Len(labels) - n)}

\* px.line(...) with the added healthcare-capacity trace
line_figure(frame, labels) ==
    [x  |-> [i \in DOMAIN labels |-> frame[labels[i]].date],
     y  |-> [i \in DOMAIN labels |-> frame[labels[i]].cases_new],
     y2 |-> [i \in DOMAIN labels |-> frame[labels[i]].healthcare_capacity]]

\* px.scatter(scatter_sample, ...): the sampled rows and the title
scatter_figure(rows, state) == [rows |-> rows, title |-> state]

\* the OLS fit of the trendline: with an infinite healthcare_capacity among the
\* sampled points the fit may fail or return, both outcomes are kept
trendline_outcomes(frame, rows) ==
    IF \E i \in rows : frame[i].healthcare_capacity.kind = "inf"
    THEN {"returns", "raises"} ELSE {"returns"}

\* faulty variant: the monthly averages of the selected state's rows
heatmap_of_selection(state) ==
    LET Of(r) == r.state = state
    IN pivot(fillna(groupby_mean(SelectSeq(df, Of)), Zero))

\* px.imshow(heatmap_data.pivot(...)): the figure does not read the selection
heatmap_figure(state) == pivot(heatmap_data)

\* faulty variant: the callback rebinds the module-level df
Overwrites ==
    /\ df' = SubSeq(df, 1, Len(df) - 1)
    /\ UNCHANGED <<cases_state_df, hospital_df, max_capacity_state, max_capacity_value,
                   beds_utilized_by_covid, heatmap_data, cards>>

\* update_graph assigns no module-level name
ReadOnly == UNCHANGED shared

Raise ==
    /\ callback_error' = TRUE
    /\ UNCHANGED <<line_chart, scatter_plot, heatmap, completed>>

update_graph(state) ==
    LET filtered_df == filter_state(df, state)
        samples == sample(filtered_df, SampleSize)
        line == line_figure(df, filtered_df)
    IN /\ selected_state' = state
       /\ ReadOnly
       /\ IF samples = {}
          THEN Raise
          ELSE \E scatter_sample \in samples :
               \E fit \in trendline_outcomes(df, scatter_sample) :
                  IF fit = "raises"
                  THEN Raise
                  ELSE /\ line_chart' = line
                       /\ scatter_plot' = scatter_figure(scatter_sample, state)
                       /\ heatmap' = heatmap_figure(state)
                       /\ callback_error' = FALSE
                       /\ completed' = completed \cup {state}

-----------------------------------------------------------------------------
(* The program *)

Init ==
    /\ pc = "import"
    /\ \E in \in Inputs :
          /\ cases_state_df = CasesFile([s \in StateSet |-> in.cases], in.order)
          /\ hospital_df = HospitalFile(in.hosp, in.order, in.zero)
    /\ df = None
    /\ max_capacity_state = None
    /\ max_capacity_value = None
    /\ beds_utilized_by_covid = None
    /\ heatmap_data = None
    /\ cards = None
    /\ selected_state = None
    /\ line_chart = NoFigure
    /\ scatter_plot = NoFigure
    /\ heatmap = NoFigure
    /\ callback_error = FALSE
    /\ completed = {}

\* lines 23 .. 104: the module body up to the layout
Import ==
    /\ pc = "import"
    /\ LET cases == to_datetime(cases_state_df)
           hosp == to_datetime(hospital_df)
           joined == Derive(merge(cases, hosp))
           capacity == Column(joined, "healthcare_capacity")
           at == idxmax(capacity)
       IN /\ cases_state_df' = cases
          /\ hospital_df' = hosp
          /\ df' = joined
          /\ IF at = 0
             THEN /\ pc' = "crashed"
                  /\ UNCHANGED <<max_capacity_state, max_capacity_value,
                                 beds_utilized_by_covid, heatmap_data, cards,
                                 selected_state>>
             ELSE /\ max_capacity_state' = joined[at].state
                  /\ max_capacity_value' = max(capacity)
                  /\ beds_utilized_by_covid' =
                        MulInt(TrueDiv(sum(Column(joined, "beds_covid")),
                                       sum(Column(joined, "beds"))), 100)
                  /\ heatmap_data' = fillna(groupby_mean(joined), Zero)
                  /\ cards' = [State |-> max_capacity_state',
                               HighestCapacity |-> max_capacity_value',
                               BedsForCovid19 |-> beds_utilized_by_covid']
                  /\ selected_state' = States[1]
                  /\ pc' = "loaded"
    /\ UNCHANGED <<line_chart, scatter_plot, heatmap, callback_error, completed>>

\* the first invocation of the callback, with the dropdown's initial value
ColdStart ==
    /\ pc = "loaded"
    /\ pc' = "serving"
    /\ update_graph(selected_state)

\* the user picks another option of the dropdown
SelectionChange ==
    /\ pc = "serving"
    /\ pc' = pc
    /\ \E state \in unique_states(df) :
          /\ state # selected_state
          /\ update_graph(state)

Next == Import \/ ColdStart \/ SelectionChange

Spec == Init /\ [][Next]_vars

-----------------------------------------------------------------------------
(* Properties *)

Started == pc # "import"
Computed == pc \in {"loaded", "serving"}

KeySet(frame) == {<<frame[i].date, frame[i].state>> : i \in DOMAIN frame}

RowsOfState(state) == {i \in DOMAIN df : df[i].state = state}

\* v is admitted / beds * 100
IsRatioOf(v, admitted, beds) ==
    IF beds = 0
    THEN v.kind = (IF admitted = 0 THEN "nan" ELSE "inf")
    ELSE v.kind = "num" /\ v.n * beds = admitted * 100 * v.d

\* C2: after start-up the joined table holds exactly one record for every
\* (date, state) pair found in both sources and none for any other pair, and each
\* record's capacity ratio is admitted_total / beds * 100 of the matching hospital row
C2_InnerJoinOneRecordPerPair ==
    Started =>
        /\ KeySet(df) = KeySet(cases_state_df) \cap KeySet(hospital_df)
        /\ Len(df) = Cardinality(KeySet(df))
        /\ \A i \in DOMAIN df :
              \E h \in DOMAIN hospital_df :
                 /\ hospital_df[h].date = df[i].date
                 /\ hospital_df[h].state = df[i].state
                 /\ IsRatioOf(df[i].healthcare_capacity,
                              hospital_df[h].admitted_total, hospital_df[h].beds)

\* pairs of only one source exist on both sides and were dropped
C2_Witness ==
    /\ pc = "loaded"
    /\ Len(df) > 0
    /\ KeySet(cases_state_df) \ KeySet(hospital_df) # {}
    /\ KeySet(hospital_df) \ KeySet(cases_state_df) # {}
    /\ \E i \in DOMAIN df : df[i].healthcare_capacity.kind = "num"
                            /\ df[i].healthcare_capacity.d > 1

\* C3: a joined record with beds == 0 never makes start-up raise, and no infinite or
\* undefined value reaches the maximum card or the monthly averages
C3_ZeroBedsNormalized ==
    (Started /\ \E i \in DOMAIN df : df[i].beds = 0) =>
        /\ pc # "crashed"
        /\ IsFinite(max_capacity_value)
        /\ IsFinite(cards.HighestCapacity)
        /\ \A k \in DOMAIN heatmap_data : IsFinite(heatmap_data[k].healthcare_capacity)

\* the defined (not nan) capacity ratios of the records of one year and month
GroupOf(year, month) ==
    LET In(i) == /\ df[i].year = year /\ df[i].month = month
                 /\ ~isna(df[i].healthcare_capacity)
    IN SelectSeq([i \in 1..Len(df) |-> i], In)

RECURSIVE LCM(_)
LCM(ds) ==
    IF ds = {} THEN 1
    ELSE LET d == CHOOSE d \in ds : TRUE
             rest == LCM(ds \ {d})
         IN (d * rest) \div GCD(d, rest)

\* v is the arithmetic mean of the capacity ratios of the rows labelled by group
IsMeanOf(v, group) ==
    IF \E k \in DOMAIN group : df[group[k]].healthcare_capacity.kind = "inf"
    THEN v = Inf
    ELSE LET D == LCM({df[group[k]].healthcare_capacity.d : k \in DOMAIN group})
             S == sum([k \in DOMAIN group |->
                         df[group[k]].healthcare_capacity.n
                           * (D \div df[group[k]].healthcare_capacity.d)])
         IN v.kind = "num" /\ v.n * D * Len(group) = v.d * S

\* C4: the monthly-average table has exactly one row per distinct (year, month) of the
\* joined table and no other row; a row's value is the mean of its group's capacity
\* ratios, and exactly 0 when the group has no defined ratio
C4_MonthlyAverageRows ==
    Computed =>
        /\ {<<heatmap_data[k].year, heatmap_data[k].month>> : k \in DOMAIN heatmap_data}
              = {<<df[i].year, df[i].month>> : i \in DOMAIN df}
        /\ \A j, k \in DOMAIN heatmap_data :
              (heatmap_data[j].year = heatmap_data[k].year
               /\ heatmap_data[j].month = heatmap_data[k].month) => j = k
        /\ \A k \in DOMAIN heatmap_data :
              LET group == GroupOf(heatmap_data[k].year, heatmap_data[k].month)
              IN IF Len(group) = 0
                 THEN heatmap_data[k].healthcare_capacity = Zero
                 ELSE IsMeanOf(heatmap_data[k].healthcare_capacity, group)

\* a month whose ratios are all undefined next to a month with a fractional mean
C4_Witness ==
    /\ Computed
    /\ \E k \in DOMAIN heatmap_data :
          /\ Len(GroupOf(heatmap_data[k].year, heatmap_data[k].month)) = 0
          /\ heatmap_data[k].healthcare_capacity = Zero
    /\ \E k \in DOMAIN heatmap_data :
          /\ heatmap_data[k].healthcare_capacity.kind = "num"
          /\ heatmap_data[k].healthcare_capacity.d > 1
    /\ \E j, k \in DOMAIN heatmap_data : heatmap_data[j].year # heatmap_data[k].year

\* C5: the state card names the state of the first joined record whose capacity ratio
\* is the maximum over all joined records, and the value card shows that maximum
C5_CardsShowFirstMaximum ==
    Computed =>
        \E i \in DOMAIN df :
           /\ cards.State = df[i].state
           /\ cards.HighestCapacity = df[i].healthcare_capacity
           /\ ~isna(df[i].healthcare_capacity)
           /\ \A j \in DOMAIN df :
                 /\ ~isna(df[j].healthcare_capacity)
                       => ~Greater(df[j].healthcare_capacity, cards.HighestCapacity)
                 /\ j < i => df[j].healthcare_capacity # cards.HighestCapacity

\* records of two states tie for the maximum
C5_Witness ==
    /\ Computed
    /\ \E i, j \in DOMAIN df :
          /\ df[i].state # df[j].state
          /\ df[i].healthcare_capacity = cards.HighestCapacity
          /\ df[j].healthcare_capacity = cards.HighestCapacity

\* the figure's grid holds the values of the monthly-average table, nan elsewhere
IsPivotOf(figure, table) ==
    /\ figure.index = {table[k].year : k \in DOMAIN table}
    /\ figure.columns = {table[k].month : k \in DOMAIN table}
    /\ DOMAIN figure.z = figure.index \X figure.columns
    /\ \A k \in DOMAIN table :
          figure.z[<<table[k].year, table[k].month>>] = table[k].healthcare_capacity
    /\ \A c \in DOMAIN figure.z :
          (\A k \in DOMAIN table : <<table[k].year, table[k].month>> # c)
             => figure.z[c] = NaN

\* C6: every heatmap update_graph returns is the year x month pivot of the
\* monthly-average table, so a selection change never alters the heatmap shown
C6_HeatmapIndependentOfSelection ==
    [][/\ heatmap' # NoFigure => IsPivotOf(heatmap', heatmap_data')
       /\ heatmap # NoFigure => heatmap' = heatmap]_vars

\* both states have been rendered, the second after a selection change
C6_Witness ==
    /\ pc = "serving"
    /\ completed = StateSet
    /\ heatmap # NoFigure
    /\ \E j, k \in DOMAIN heatmap_data :
          heatmap_data[j].healthcare_capacity # heatmap_data[k].healthcare_capacity

\* C8: once start-up is over no update_graph invocation changes the joined table, the
\* source tables, the summary scalars, the cards or the monthly-average table
C8_SharedDataReadOnly ==
    [][Computed => shared' = shared]_vars

\* renders of both states have returned and the last invocation raised
C8_Witness ==
    /\ pc = "serving"
    /\ completed = StateSet
    /\ callback_error
    /\ Len(df) > 0

Min(a, b) == IF a < b THEN a ELSE b

\* C1: for a selected state with n joined records update_graph returns the charts
\* with a scatter sample of exactly min(100, n) rows of that state
C1_SampleIsMinOfSizeAndRows ==
    (pc = "serving" /\ RowsOfState(selected_state) # {}) =>
        /\ ~callback_error
        /\ scatter_plot # NoFigure
        /\ scatter_plot.title = selected_state
        /\ scatter_plot.rows \subseteq RowsOfState(selected_state)
        /\ Cardinality(scatter_plot.rows)
              = Min(SampleSize, Cardinality(RowsOfState(selected_state)))

\* the time-series chart plots exactly the joined records of the state
IsLineChartOf(figure, state) ==
    /\ Len(figure.x) = Cardinality(RowsOfState(state))
    /\ \A i \in RowsOfState(state) :
          \E k \in DOMAIN figure.x :
             /\ figure.x[k] = df[i].date
             /\ figure.y[k] = df[i].cases_new
             /\ figure.y2[k] = df[i].healthcare_capacity

\* C7: after the selection changed from a rendered state A to a state B, the
\* time-series chart plots exactly the joined records of B and no row of A
C7_LineChartFollowsSelection ==
    (pc = "serving" /\ completed \ {selected_state} # {}) =>
        /\ line_chart # NoFigure
        /\ IsLineChartOf(line_chart, selected_state)

\* C9: with the default 'Selangor' absent from the joined table the cold-start
\* render returns empty time-series and scatter charts instead of raising
C9_AbsentDefaultRendersEmpty ==
    (pc = "serving" /\ selected_state = States[1]
        /\ RowsOfState(States[1]) = {} /\ completed = {}) =>
        /\ ~callback_error
        /\ line_chart # NoFigure /\ Len(line_chart.x) = 0
        /\ scatter_plot # NoFigure /\ scatter_plot.rows = {}

\* C10: once a selection event is handled, the cold start included, all three charts
\* are shown and the time-series and scatter charts are those of the selected state
C10_EveryEventRendersSelection ==
    (pc = "serving" /\ \A s \in StateSet : RowsOfState(s) # {}) =>
        /\ ~callback_error
        /\ heatmap # NoFigure
        /\ scatter_plot # NoFigure /\ scatter_plot.title = selected_state
        /\ line_chart # NoFigure /\ IsLineChartOf(line_chart, selected_state)

====
